---- MODULE Spec2Model ----
(***************************************************************************)
(* Model of the game-update loop of src/src/components/FlipShootGame.tsx.  *)
(*                                                                         *)
(* Numbers.  The program computes with JavaScript doubles; every length,   *)
(* position and velocity of the model is the program's value in tenths of  *)
(* a pixel (GRAVITY 0.6 is 6, CANVAS_WIDTH 800 is 8000), so that all the   *)
(* arithmetic of a tick is integer arithmetic.  The score is a plain       *)
(* count.  A call of Math.random() is a draw r in 0..999 standing for the  *)
(* value r/1000 of [0, 1).                                                 *)
(***************************************************************************)
EXTENDS Integers, Sequences, FiniteSets, TLC

\* ------------------------------------------------------------------------
\* Program constants (tenths of a pixel)
\* ------------------------------------------------------------------------
CANVAS_WIDTH == 8000
CANVAS_HEIGHT == 6000
GRAVITY == 6
JUMP_FORCE == -120
BIRD_SIZE == 300
BULLET_SIZE == 80
BULLET_SPEED == 80
OBSTACLE_WIDTH == 600
OBSTACLE_GAP == 2000
ENEMY_SIZE == 250
\* bird.x of the initial and the reset state
BIRD_X == 1000
\* obstacle.x - 3 at every tick
SCROLL_SPEED == 30
\* CANVAS_WIDTH - 300 in the spawn test of an obstacle
OBSTACLE_SPACING == 3000
\* obstacles.length < 4
OBSTACLE_TARGET == 4
\* velocityY: 2 / velocityX: 2 of a spawned enemy
ENEMY_SPEED == 20
\* newState.score += 1 and newScore += 10
OBSTACLE_REWARD == 1
\* variant: a hit is worth as much as an obstacle
ENEMY_REWARD_ONE == OBSTACLE_REWARD
ENEMY_REWARD == 10

\* ------------------------------------------------------------------------
\* Bounds of the model and the draws of Math.random() that are explored
\* ------------------------------------------------------------------------
\* ticks processed while Running in one run (since the last reset)
MaxTicks == 32
\* events of the environment in one run: input events (key-down, key-up,
\* click) handled plus enemies spawned
MaxEvents == 1
\* ticks explored from each drawn state of SpecAny
AnyTicks == 1
\* longest projectile list and longest enemy list of a drawn state
AnyLen == 2
\* ticks processed while Running in one run of SpecFall
FallTicks == 92
\* ticks processed while Running in one run of SpecLoop
LoopTicks == 3
\* longest enemy list of a drawn state of SpecOld
OldLen == 3
\* Math.random() < 0.02 : 0 spawns, 500 does not
RandSpawn == {0, 500}
\* Math.floor(Math.random() * 4) : 0 is top, 250 is bottom, 500 is left
RandType == {0, 250, 500}
\* Math.random() * CANVAS_WIDTH, Math.random() * CANVAS_HEIGHT
RandPos == {125}
\* (Math.random() - 0.5) * 2
RandJitter == {500}
\* Math.random() * 200 + 100
RandTop == {0, 995}

VARIABLES gameState, keysRef, shootDeps, loop, env, last

vars == <<gameState, keysRef, shootDeps, loop, env, last>>

\* ------------------------------------------------------------------------
\* Entities and the two literal states of the component
\* ------------------------------------------------------------------------
Bird(y, v) == [x |-> BIRD_X, y |-> y, velocity |-> v, size |-> BIRD_SIZE]

Obstacle(x, topHeight) ==
  [x |-> x, topHeight |-> topHeight, gap |-> OBSTACLE_GAP, width |-> OBSTACLE_WIDTH]

Bullet(x, y) == [x |-> x, y |-> y, velocity |-> BULLET_SPEED, size |-> BULLET_SIZE]

\* useState initial value: phase Idle
InitialState ==
  [bird |-> Bird(CANVAS_HEIGHT \div 2, 0),
   bullets |-> <<>>, enemies |-> <<>>, obstacles |-> <<>>,
   score |-> 0, gameRunning |-> FALSE, gameOver |-> FALSE]

\* variant: obstacles: [] as in the initial state
ResetStateNoObstacles ==
  [bird |-> Bird(CANVAS_HEIGHT \div 2, 0),
   bullets |-> <<>>, enemies |-> <<>>, obstacles |-> <<>>,
   score |-> 0, gameRunning |-> TRUE, gameOver |-> FALSE]

\* the literal resetGame stores
ResetState ==
  [bird |-> Bird(CANVAS_HEIGHT \div 2, 0),
   bullets |-> <<>>, enemies |-> <<>>,
   obstacles |-> <<Obstacle(4000, 1500), Obstacle(7000, 2500)>>,
   score |-> 0, gameRunning |-> TRUE, gameOver |-> FALSE]

\* ------------------------------------------------------------------------
\* Sequence helpers (Array.prototype.map / filter / splice)
\* ------------------------------------------------------------------------
RemoveAt(s, i) == SubSeq(s, 1, i - 1) \o SubSeq(s, i + 1, Len(s))

\* s without the elements at the indices in R
RECURSIVE Without(_, _, _)
Without(s, R, i) ==
  IF i > Len(s) THEN <<>>
  ELSE (IF i \in R THEN <<>> ELSE <<s[i]>>) \o Without(s, R, i + 1)

MapSeq(s, F(_)) == [i \in 1..Len(s) |-> F(s[i])]

\* ------------------------------------------------------------------------
\* checkCollisions
\* ------------------------------------------------------------------------
\* Math.sqrt(dx*dx + dy*dy) < r, for r > 0
Near(ax, ay, bx, by, r) ==
  (ax - bx) * (ax - bx) + (ay - by) * (ay - by) < r * r

BulletHitsEnemy(bullet, enemy) ==
  Near(bullet.x + bullet.size \div 2, bullet.y + bullet.size \div 2,
       enemy.x + enemy.size \div 2, enemy.y + enemy.size \div 2,
       bullet.size \div 2 + enemy.size \div 2)

\* variant: the earlier collision test, corner to corner against the sum of
\* the sizes
BirdHitsEnemyCorners(bird, enemy) ==
  Near(bird.x, bird.y, enemy.x, enemy.y, bird.size + enemy.size)

BirdHitsEnemy(bird, enemy) ==
  Near(bird.x + bird.size \div 2, bird.y + bird.size \div 2,
       enemy.x + enemy.size \div 2, enemy.y + enemy.size \div 2,
       bird.size \div 2 + enemy.size \div 2)

\* variant: only the upper part of an obstacle is tested
BirdHitsObstacleTopOnly(bird, obstacle) ==
  /\ bird.x + bird.size > obstacle.x
  /\ bird.x < obstacle.x + obstacle.width
  /\ bird.y < obstacle.topHeight

BirdHitsObstacle(bird, obstacle) ==
  /\ bird.x + bird.size > obstacle.x
  /\ bird.x < obstacle.x + obstacle.width
  /\ \/ bird.y < obstacle.topHeight
     \/ bird.y + bird.size > obstacle.topHeight + obstacle.gap

\* the inner loop: enemyIndex runs from the end down to 0 and stops at the
\* first hit; the result is the 1-based index of that enemy, or 0
\* variant: the break leaves the inner loop after the first enemy tested
EnemyScanFirstOnly(bullet, newEnemies, enemyIndex) ==
  IF enemyIndex = 0 THEN 0
  ELSE IF BulletHitsEnemy(bullet, newEnemies[enemyIndex]) THEN enemyIndex
  ELSE 0

RECURSIVE EnemyScan(_, _, _)
EnemyScan(bullet, newEnemies, enemyIndex) ==
  IF enemyIndex = 0 THEN 0
  ELSE IF BulletHitsEnemy(bullet, newEnemies[enemyIndex]) THEN enemyIndex
  ELSE EnemyScan(bullet, newEnemies, enemyIndex - 1)

\* the outer loop: bulletIndex runs from the end down to 0; a hit splices
\* both lists and adds the reward.  ids carries, for every enemy still in
\* newEnemies, its index in the list the pass started with, and pairs
\* records <<bullet index, enemy index>> (both in the starting lists) of
\* every removal.
\* variant: no break after a hit; the inner loop goes on with the same
\* bullet, and every further hit splices at bulletIndex again
RECURSIVE BulletLoopNoBreak(_, _, _, _, _, _)
BulletLoopNoBreak(newBullets, newEnemies, ids, newScore, pairs, bulletIndex) ==
  IF bulletIndex = 0
  THEN [bullets |-> newBullets, enemies |-> newEnemies,
        score |-> newScore, pairs |-> pairs]
  ELSE LET bullet == newBullets[bulletIndex]
           hits == {i \in 1..Len(newEnemies) :
                      BulletHitsEnemy(bullet, newEnemies[i])}
           n == Cardinality(hits)
           hitIds == Without(ids, (1..Len(ids)) \ hits, 1)
       IN BulletLoopNoBreak(
            SubSeq(newBullets, 1, bulletIndex - 1)
              \o SubSeq(newBullets, bulletIndex + n, Len(newBullets)),
            Without(newEnemies, hits, 1), Without(ids, hits, 1),
            newScore + ENEMY_REWARD * n,
            pairs \o [j \in 1..n |-> <<bulletIndex, hitIds[j]>>],
            bulletIndex - 1)

\* variant: newScore = 10 instead of newScore += 10
RECURSIVE BulletLoopAssign(_, _, _, _, _, _)
BulletLoopAssign(newBullets, newEnemies, ids, newScore, pairs, bulletIndex) ==
  IF bulletIndex = 0
  THEN [bullets |-> newBullets, enemies |-> newEnemies,
        score |-> newScore, pairs |-> pairs]
  ELSE LET hit == EnemyScan(newBullets[bulletIndex], newEnemies, Len(newEnemies))
       IN IF hit = 0
          THEN BulletLoopAssign(newBullets, newEnemies, ids, newScore, pairs,
                                bulletIndex - 1)
          ELSE BulletLoopAssign(RemoveAt(newBullets, bulletIndex),
                                RemoveAt(newEnemies, hit), RemoveAt(ids, hit),
                                ENEMY_REWARD,
                                Append(pairs, <<bulletIndex, ids[hit]>>),
                                bulletIndex - 1)

RECURSIVE BulletLoop(_, _, _, _, _, _)
BulletLoop(newBullets, newEnemies, ids, newScore, pairs, bulletIndex) ==
  IF bulletIndex = 0
  THEN [bullets |-> newBullets, enemies |-> newEnemies,
        score |-> newScore, pairs |-> pairs]
  ELSE LET hit == EnemyScan(newBullets[bulletIndex], newEnemies, Len(newEnemies))
       IN IF hit = 0
          THEN BulletLoop(newBullets, newEnemies, ids, newScore, pairs,
                          bulletIndex - 1)
          ELSE BulletLoop(RemoveAt(newBullets, bulletIndex),
                          RemoveAt(newEnemies, hit), RemoveAt(ids, hit),
                          newScore + ENEMY_REWARD,
                          Append(pairs, <<bulletIndex, ids[hit]>>),
                          bulletIndex - 1)

BulletEnemyPass(bullets, enemies, score) ==
  BulletLoop(bullets, enemies, [i \in 1..Len(enemies) |-> i], score, <<>>,
             Len(bullets))

\* variant: the obstacle pass is missing
CollisionEnemiesOnly(bird, newEnemies, obstacles) ==
  \E i \in 1..Len(newEnemies) : BirdHitsEnemy(bird, newEnemies[i])

\* let gameOver = false, set by the two forEach passes
CollisionGameOver(bird, newEnemies, obstacles) ==
  \/ \E i \in 1..Len(newEnemies) : BirdHitsEnemy(bird, newEnemies[i])
  \/ \E i \in 1..Len(obstacles) : BirdHitsObstacle(bird, obstacles[i])

\* variant: gameOver is stored, gameRunning is left as it came in
checkCollisionsKeepRunning(state) ==
  LET pass == BulletEnemyPass(state.bullets, state.enemies, state.score)
      gameOver == CollisionGameOver(state.bird, pass.enemies, state.obstacles)
  IN [state EXCEPT !.bullets = pass.bullets,
                   !.enemies = pass.enemies,
                   !.score = pass.score,
                   !.gameOver = gameOver]

\* variant: the bird is tested against the enemies the pass started with
checkCollisionsBirdFirst(state) ==
  LET pass == BulletEnemyPass(state.bullets, state.enemies, state.score)
      gameOver == CollisionGameOver(state.bird, state.enemies, state.obstacles)
  IN [state EXCEPT !.bullets = pass.bullets,
                   !.enemies = pass.enemies,
                   !.score = pass.score,
                   !.gameOver = gameOver,
                   !.gameRunning = ~gameOver]

\* variant: the result keeps running whatever the collision tests say
checkCollisionsStillRunning(state) ==
  LET pass == BulletEnemyPass(state.bullets, state.enemies, state.score)
      gameOver == CollisionGameOver(state.bird, pass.enemies, state.obstacles)
  IN [state EXCEPT !.bullets = pass.bullets,
                   !.enemies = pass.enemies,
                   !.score = pass.score,
                   !.gameOver = gameOver,
                   !.gameRunning = TRUE]

checkCollisions(state) ==
  LET pass == BulletEnemyPass(state.bullets, state.enemies, state.score)
      gameOver == CollisionGameOver(state.bird, pass.enemies, state.obstacles)
  IN [state EXCEPT !.bullets = pass.bullets,
                   !.enemies = pass.enemies,
                   !.score = pass.score,
                   !.gameOver = gameOver,
                   !.gameRunning = ~gameOver]

\* ------------------------------------------------------------------------
\* checkCollisions of the earlier variant, src/unnamed/part_000
\* ------------------------------------------------------------------------
\* corner to corner, against the sum of the sizes
OldBulletHitsEnemy(bullet, enemy) ==
  Near(bullet.x, bullet.y, enemy.x, enemy.y, bullet.size + enemy.size)

\* splice(i, 1): nothing is removed when i is past the end
SpliceAt(s, i) == IF i <= Len(s) THEN RemoveAt(s, i) ELSE s

OldNone ==
  [bullets |-> <<>>, bids |-> <<>>, enemies |-> <<>>, eids |-> <<>>,
   score |-> 0, log |-> <<>>, tested |-> {}, present |-> {}]

\* newEnemies.forEach inside the callback of one bullet: the indices
\* 0 .. n-1 of the list as long as they exist, n being the length at the
\* start; a hit splices both lists at the indices of the callbacks and the
\* loop goes on.  st carries the lists, for every element its index in the
\* list the pass started with (bids, eids), the score, and a record of the
\* pass: log, one entry per hit (the bullet visited, the bullet spliced or 0,
\* the enemy spliced); tested, the pairs <<bullet, enemy>> the test was
\* applied to; present, the pairs of a visited bullet and an enemy in the
\* list at the start of its visit.
\* variant: the inner loop is left after a hit
RECURSIVE OldEnemyLoopBreak(_, _, _, _, _, _)
OldEnemyLoopBreak(bullet, visited, bulletIndex, st, enemyIndex, n) ==
  IF enemyIndex > n \/ enemyIndex > Len(st.enemies) THEN st
  ELSE LET st1 == [st EXCEPT !.tested = @ \cup {<<visited, st.eids[enemyIndex]>>}]
       IN IF OldBulletHitsEnemy(bullet, st.enemies[enemyIndex])
          THEN [st1 EXCEPT
                  !.bullets = SpliceAt(@, bulletIndex),
                  !.bids = SpliceAt(@, bulletIndex),
                  !.enemies = RemoveAt(@, enemyIndex),
                  !.eids = RemoveAt(@, enemyIndex),
                  !.score = @ + ENEMY_REWARD,
                  !.log = Append(@, [visited |-> visited,
                                     removed |-> IF bulletIndex <= Len(st.bids)
                                                 THEN st.bids[bulletIndex] ELSE 0,
                                     enemy |-> st.eids[enemyIndex]])]
          ELSE OldEnemyLoopBreak(bullet, visited, bulletIndex, st1,
                                 enemyIndex + 1, n)

RECURSIVE OldEnemyLoop(_, _, _, _, _, _)
OldEnemyLoop(bullet, visited, bulletIndex, st, enemyIndex, n) ==
  IF enemyIndex > n \/ enemyIndex > Len(st.enemies) THEN st
  ELSE LET st1 == [st EXCEPT !.tested = @ \cup {<<visited, st.eids[enemyIndex]>>}]
       IN IF OldBulletHitsEnemy(bullet, st.enemies[enemyIndex])
          THEN OldEnemyLoop(bullet, visited, bulletIndex,
                 [st1 EXCEPT
                    !.bullets = SpliceAt(@, bulletIndex),
                    !.bids = SpliceAt(@, bulletIndex),
                    !.enemies = RemoveAt(@, enemyIndex),
                    !.eids = RemoveAt(@, enemyIndex),
                    !.score = @ + ENEMY_REWARD,
                    !.log = Append(@, [visited |-> visited,
                                       removed |-> IF bulletIndex <= Len(st.bids)
                                                   THEN st.bids[bulletIndex] ELSE 0,
                                       enemy |-> st.eids[enemyIndex]])],
                 enemyIndex + 1, n)
          ELSE OldEnemyLoop(bullet, visited, bulletIndex, st1, enemyIndex + 1, n)

\* newBullets.forEach: the indices 0 .. m-1 as long as they exist
RECURSIVE OldBulletLoop(_, _, _)
OldBulletLoop(st, bulletIndex, m) ==
  IF bulletIndex > m \/ bulletIndex > Len(st.bullets) THEN st
  ELSE LET visited == st.bids[bulletIndex]
           st1 == [st EXCEPT !.present =
                     @ \cup {<<visited, st.eids[j]>> : j \in 1..Len(st.eids)}]
       IN OldBulletLoop(
            OldEnemyLoop(st.bullets[bulletIndex], visited, bulletIndex, st1,
                         1, Len(st.enemies)),
            bulletIndex + 1, m)

OldBulletEnemyPass(bullets, enemies, score) ==
  OldBulletLoop([bullets |-> bullets, bids |-> [i \in 1..Len(bullets) |-> i],
                 enemies |-> enemies, eids |-> [i \in 1..Len(enemies) |-> i],
                 score |-> score, log |-> <<>>, tested |-> {}, present |-> {}],
                1, Len(bullets))

\* the two forEach passes over the bird: a return inside the callback ends
\* the callback, its value is dropped; the result keeps the flags of state
OldCheckCollisions(state) ==
  LET pass == OldBulletEnemyPass(state.bullets, state.enemies, state.score)
  IN [state EXCEPT !.bullets = pass.bullets,
                   !.enemies = pass.enemies,
                   !.score = pass.score]

\* ------------------------------------------------------------------------
\* updateGame: the motion and spawning part, in the order of the updater
\* ------------------------------------------------------------------------
\* variant: the lower bound test is missing
BirdPhysicsNoFloor(bird, flap) ==
  LET v0 == IF flap THEN JUMP_FORCE ELSE bird.velocity
      v1 == v0 + GRAVITY
      y1 == bird.y + v1
      high == y1 < 0
  IN [bird |-> [bird EXCEPT !.y = IF high THEN 0 ELSE y1,
                            !.velocity = IF high THEN 0 ELSE v1],
      clampHigh |-> high, clampLow |-> FALSE]

\* variant: the upper bound test leaves the velocity
BirdPhysicsKeepsVelocity(bird, flap) ==
  LET v0 == IF flap THEN JUMP_FORCE ELSE bird.velocity
      v1 == v0 + GRAVITY
      y1 == bird.y + v1
      high == y1 < 0
      y2 == IF high THEN 0 ELSE y1
      low == y2 > CANVAS_HEIGHT - bird.size
      y3 == IF low THEN CANVAS_HEIGHT - bird.size ELSE y2
  IN [bird |-> [bird EXCEPT !.y = y3, !.velocity = v1],
      clampHigh |-> high, clampLow |-> low]

\* variant: the impulse is added to the velocity
BirdPhysicsFlapAdds(bird, flap) ==
  LET v0 == IF flap THEN bird.velocity + JUMP_FORCE ELSE bird.velocity
      v1 == v0 + GRAVITY
      y1 == bird.y + v1
      high == y1 < 0
      y2 == IF high THEN 0 ELSE y1
      v2 == IF high THEN 0 ELSE v1
      low == y2 > CANVAS_HEIGHT - bird.size
      y3 == IF low THEN CANVAS_HEIGHT - bird.size ELSE y2
  IN [bird |-> [bird EXCEPT !.y = y3, !.velocity = v2],
      clampHigh |-> high, clampLow |-> low]

\* variant: the position is advanced before gravity is added
BirdPhysicsMoveFirst(bird, flap) ==
  LET v0 == IF flap THEN JUMP_FORCE ELSE bird.velocity
      v1 == v0 + GRAVITY
      y1 == bird.y + v0
      high == y1 < 0
      y2 == IF high THEN 0 ELSE y1
      v2 == IF high THEN 0 ELSE v1
      low == y2 > CANVAS_HEIGHT - bird.size
      y3 == IF low THEN CANVAS_HEIGHT - bird.size ELSE y2
  IN [bird |-> [bird EXCEPT !.y = y3, !.velocity = v2],
      clampHigh |-> high, clampLow |-> low]

\* "Handle input", "Update bird physics", "Keep bird in bounds".  clampHigh
\* and clampLow tell which of the two bound tests fired.
BirdPhysics(bird, flap) ==
  LET v0 == IF flap THEN JUMP_FORCE ELSE bird.velocity
      v1 == v0 + GRAVITY
      y1 == bird.y + v1
      high == y1 < 0
      y2 == IF high THEN 0 ELSE y1
      v2 == IF high THEN 0 ELSE v1
      low == y2 > CANVAS_HEIGHT - bird.size
      y3 == IF low THEN CANVAS_HEIGHT - bird.size ELSE y2
  IN [bird |-> [bird EXCEPT !.y = y3, !.velocity = v2],
      clampHigh |-> high, clampLow |-> low]

AdvanceBullet(bullet) == [bullet EXCEPT !.x = bullet.x + bullet.velocity]

BulletInside(bullet) == bullet.x < CANVAS_WIDTH

BulletOutside(bullet) == ~BulletInside(bullet)

\* variant: the filter is missing
MoveBulletsNoFilter(bullets) == MapSeq(bullets, AdvanceBullet)

MoveBullets(bullets) == SelectSeq(MapSeq(bullets, AdvanceBullet), BulletInside)

ScrollObstacle(obstacle) == [obstacle EXCEPT !.x = obstacle.x - SCROLL_SPEED]

ScrollObstacles(obstacles) == MapSeq(obstacles, ScrollObstacle)

\* Math.random() * 200 + 100
TopHeight(r) == (r * 2000) \div 1000 + 1000

\* the spawn test reads obstacles[length - 1].x ; the caller handles the
\* empty list, on which that read throws
\* variant: the spacing test is inclusive
NeedsObstacleInclusive(obstacles) ==
  /\ Len(obstacles) < OBSTACLE_TARGET
  /\ obstacles[Len(obstacles)].x <= CANVAS_WIDTH - OBSTACLE_SPACING

\* variant: the spacing test is left out
NeedsObstacleAnyGap(obstacles) ==
  /\ Len(obstacles) < OBSTACLE_TARGET
  /\ obstacles[Len(obstacles)].x < CANVAS_WIDTH

NeedsObstacle(obstacles) ==
  /\ Len(obstacles) < OBSTACLE_TARGET
  /\ obstacles[Len(obstacles)].x < CANVAS_WIDTH - OBSTACLE_SPACING

AddObstacle(obstacles, rTop) ==
  IF NeedsObstacle(obstacles)
  THEN Append(obstacles, Obstacle(CANVAS_WIDTH, TopHeight(rTop)))
  ELSE obstacles

ObstacleGone(obstacle) == obstacle.x + obstacle.width < 0

\* variant: the filter keeps the wrong side
ObstacleStaysInverted(obstacle) == ObstacleGone(obstacle)

ObstacleStays(obstacle) == ~ObstacleGone(obstacle)

\* variant: the filter drops without counting
DropObstaclesNoScore(obstacles, score) ==
  [obstacles |-> SelectSeq(obstacles, ObstacleStays), score |-> score]

\* the filter that also counts: one point for every obstacle it drops
DropObstacles(obstacles, score) ==
  LET kept == SelectSeq(obstacles, ObstacleStays)
  IN [obstacles |-> kept,
      score |-> score + OBSTACLE_REWARD * (Len(obstacles) - Len(kept))]

AdvanceEnemy(enemy) ==
  [enemy EXCEPT !.x = enemy.x + enemy.velocityX, !.y = enemy.y + enemy.velocityY]

\* variant: the right bound is inclusive
EnemyInsideInclusive(enemy) ==
  /\ enemy.x > -enemy.size
  /\ enemy.x <= CANVAS_WIDTH + enemy.size
  /\ enemy.y > -enemy.size
  /\ enemy.y < CANVAS_HEIGHT + enemy.size

EnemyInside(enemy) ==
  /\ enemy.x > -enemy.size
  /\ enemy.x < CANVAS_WIDTH + enemy.size
  /\ enemy.y > -enemy.size
  /\ enemy.y < CANVAS_HEIGHT + enemy.size

EnemyOutside(enemy) == ~EnemyInside(enemy)

MoveEnemies(enemies) == SelectSeq(MapSeq(enemies, AdvanceEnemy), EnemyInside)

\* ['top', 'bottom', 'left', 'right'][Math.floor(Math.random() * 4)]
EnemyType(r) == <<"top", "bottom", "left", "right">>[(r * 4) \div 1000 + 1]

\* Math.random() * CANVAS_WIDTH and Math.random() * CANVAS_HEIGHT
AlongWidth(r) == (r * CANVAS_WIDTH) \div 1000

AlongHeight(r) == (r * CANVAS_HEIGHT) \div 1000

\* (Math.random() - 0.5) * 2, in tenths of a pixel
Jitter(r) == ((r - 500) * 2 * 10) \div 1000

\* the switch over enemyType
NewEnemy(rType, rPos, rJit) ==
  LET type == EnemyType(rType)
  IN CASE type = "top" ->
            [x |-> AlongWidth(rPos), y |-> -ENEMY_SIZE,
             velocityX |-> Jitter(rJit), velocityY |-> ENEMY_SPEED,
             size |-> ENEMY_SIZE, type |-> type]
       [] type = "bottom" ->
            [x |-> AlongWidth(rPos), y |-> CANVAS_HEIGHT + ENEMY_SIZE,
             velocityX |-> Jitter(rJit), velocityY |-> -ENEMY_SPEED,
             size |-> ENEMY_SIZE, type |-> type]
       [] type = "left" ->
            [x |-> -ENEMY_SIZE, y |-> AlongHeight(rPos),
             velocityX |-> ENEMY_SPEED, velocityY |-> Jitter(rJit),
             size |-> ENEMY_SIZE, type |-> type]
       [] type = "right" ->
            [x |-> CANVAS_WIDTH + ENEMY_SIZE, y |-> AlongHeight(rPos),
             velocityX |-> -ENEMY_SPEED, velocityY |-> Jitter(rJit),
             size |-> ENEMY_SIZE, type |-> type]

\* Math.random() < 0.02
Spawns(rSpawn) == rSpawn < 20

SpawnEnemy(enemies, d) ==
  IF Spawns(d.spawn) THEN Append(enemies, NewEnemy(d.type, d.pos, d.jit))
  ELSE enemies

\* newState as it is handed to checkCollisions: the flags are those of
\* prevState unless the lower clamp set them
Motion(prevState, flap, d) ==
  LET phys == BirdPhysics(prevState.bird, flap)
      drop == DropObstacles(AddObstacle(ScrollObstacles(prevState.obstacles), d.top),
                            prevState.score)
  IN [bird |-> phys.bird,
      bullets |-> MoveBullets(prevState.bullets),
      enemies |-> SpawnEnemy(MoveEnemies(prevState.enemies), d),
      obstacles |-> drop.obstacles,
      score |-> drop.score,
      gameRunning |-> IF phys.clampLow THEN FALSE ELSE prevState.gameRunning,
      gameOver |-> IF phys.clampLow THEN TRUE ELSE prevState.gameOver]

\* variant: the early return is taken in phase Idle only
updateGameIdleOnly(prevState, flap, d) ==
  IF ~prevState.gameRunning /\ ~prevState.gameOver THEN prevState
  ELSE checkCollisions(Motion(prevState, flap, d))

\* the updater passed to setGameState by updateGame
updateGame(prevState, flap, d) ==
  IF ~prevState.gameRunning THEN prevState
  ELSE checkCollisions(Motion(prevState, flap, d))

\* variant: the projectile starts at the bird's left edge
AddBulletAtBird(prev) ==
  [prev EXCEPT !.bullets =
     Append(prev.bullets,
            Bullet(prev.bird.x, prev.bird.y + prev.bird.size \div 2))]

\* the object prevState after the updater has run: newState = { ...prevState }
\* copies the reference to the bird, and the updater writes velocity and y
\* through newState.bird; every list is replaced in newState, not written
PrevStateAfter(prevState, flap) ==
  IF ~prevState.gameRunning THEN prevState
  ELSE [prevState EXCEPT !.bird = BirdPhysics(prevState.bird, flap).bird]

\* the updater passed to setGameState by handleShoot
AddBullet(prev) ==
  [prev EXCEPT !.bullets =
     Append(prev.bullets,
            Bullet(prev.bird.x + prev.bird.size,
                   prev.bird.y + prev.bird.size \div 2))]

\* handleShoot as seen by a handler that captured the flags in deps
handleShoot(deps, state) ==
  IF ~deps.gameRunning \/ deps.gameOver THEN state ELSE AddBullet(state)

\* ------------------------------------------------------------------------
\* State of the model
\*   gameState  the committed value of the useState hook
\*   keysRef    keysRef.current, the set of held key codes
\*   shootDeps  the gameRunning / gameOver values captured by the handleShoot
\*              the listeners currently call.  The listeners are renewed by
\*              an effect, which React runs after the commit and at the
\*              latest before it renders the next update: a step that
\*              commits a new state finds the handler of the state before
\*              it, and Rerender is the effect of the latest commit.
\*   loop       the tick driver: active, the number of intervals set and
\*              not cleared; refLive, whether gameLoopRef.current names an
\*              active interval; pending, whether the timer effect of the
\*              latest commit has yet to run
\*   env        counters of a run: ticks and events, obstacles removed past
\*              the left edge (gone) and enemies removed by a projectile
\*              (shot) since the last reset, the tick limit
\*              of the specification, and driver, whether the specification
\*              follows the tick driver (ticks come from an active interval
\*              only) or lets a tick arrive at any time
\*   last       what the last step did: the operation, whether a tick was
\*              processed while Running, which clamp fired, the lists and
\*              the score the projectile pass started with, the pairs it
\*              removed, the number of obstacles the filter dropped,
\*              whether an enemy was spawned and the moved enemies the
\*              bounds filter dropped; the bird of the object prevState
\*              before and after the updater ran, and the bird the updater
\*              returns when it is applied to that object once more;
\*              old, the record of the projectile pass of the earlier
\*              variant (SpecOld); spent, the moved projectiles the bounds
\*              filter dropped
\* ------------------------------------------------------------------------
Flags(state) == [gameRunning |-> state.gameRunning, gameOver |-> state.gameOver]

Did(op) ==
  [op |-> op, ran |-> FALSE, clampHigh |-> FALSE, clampLow |-> FALSE,
   bullets |-> <<>>, enemies |-> <<>>, score |-> 0, pairs |-> <<>>,
   dropped |-> 0, spawned |-> FALSE, pruned |-> <<>>,
   prevBefore |-> InitialState.bird, prevAfter |-> InitialState.bird,
   again |-> InitialState.bird, old |-> OldNone, spent |-> <<>>]

\* clearInterval(gameLoopRef.current), a no-op on an interval already
\* cleared and on an unset ref
ClearLoop(l) ==
  IF l.refLive THEN [l EXCEPT !.active = @ - 1, !.refLive = FALSE] ELSE l

\* variant: the effect returns no cleanup
TimerEffectNoCleanup(l, gameRunning) ==
  IF gameRunning
  THEN [l EXCEPT !.active = @ + 1, !.refLive = TRUE, !.pending = FALSE]
  ELSE [ClearLoop(l) EXCEPT !.pending = FALSE]

\* one run of the timer effect after a commit whose gameRunning, updateGame
\* or draw differs: the cleanup the previous run returned, then the body
TimerEffect(l, gameRunning) ==
  LET cleaned == ClearLoop(l)
  IN IF gameRunning
     THEN [cleaned EXCEPT !.active = @ + 1, !.refLive = TRUE, !.pending = FALSE]
     ELSE [ClearLoop(cleaned) EXCEPT !.pending = FALSE]

\* the driver after a commit: React runs the effects still pending from the
\* commit before, then the new commit leaves its own effect pending if a
\* dependency changed (gameRunning, or draw through gameState.obstacles)
LoopAfterCommit(depsChanged) ==
  IF ~env.driver THEN loop
  ELSE LET ran == IF loop.pending THEN TimerEffect(loop, gameState.gameRunning)
                  ELSE loop
       IN [ran EXCEPT !.pending = depsChanged]

\* a history of a run in progress that has the score it shows: obstacles
\* removed past the left edge and enemies removed by a projectile
Removals(score) == score % 10

Hits(score) == score \div 10

NoLoop == [active |-> 0, refLive |-> FALSE, pending |-> FALSE]

Init ==
  /\ gameState = InitialState
  /\ keysRef = {}
  /\ shootDeps = Flags(InitialState)
  /\ loop = NoLoop
  /\ env = [ticks |-> 0, events |-> 0, limit |-> MaxTicks, driver |-> FALSE,
            gone |-> 0, shot |-> 0]
  /\ last = Did("init")

\* the draws of one tick; a draw the tick does not make is fixed to 0
TickDraws(prevState) ==
  LET tops == IF NeedsObstacle(ScrollObstacles(prevState.obstacles))
              THEN RandTop ELSE {0}
      quiet == [top : tops, spawn : {r \in RandSpawn : ~Spawns(r)},
                type : {0}, pos : {0}, jit : {0}]
      spawn == [top : tops, spawn : {r \in RandSpawn : Spawns(r)},
                type : RandType, pos : RandPos, jit : RandJitter]
  IN IF env.events < MaxEvents THEN quiet \cup spawn ELSE quiet

\* one firing of the interval callback: setGameState(updater) and commit.
\* An updater that returns prevState commits nothing.
UpdateGame ==
  /\ env.driver => loop.active > 0
  /\ IF ~gameState.gameRunning
     THEN /\ gameState' = updateGame(gameState, "Space" \in keysRef,
                                     [top |-> 0, spawn |-> 999, type |-> 0,
                                      pos |-> 0, jit |-> 0])
          /\ last' = Did("tick")
          /\ UNCHANGED <<keysRef, shootDeps, loop, env>>
     ELSE IF Len(gameState.obstacles) = 0
     THEN \* obstacles[-1].x throws; nothing is committed
          /\ last' = Did("throw")
          /\ UNCHANGED <<gameState, keysRef, shootDeps, loop, env>>
     ELSE /\ env.ticks < env.limit
          /\ \E d \in TickDraws(gameState) :
               LET flap == "Space" \in keysRef
                   phys == BirdPhysics(gameState.bird, flap)
                   cand == Motion(gameState, flap, d)
                   pass == BulletEnemyPass(cand.bullets, cand.enemies, cand.score)
               IN /\ gameState' = updateGame(gameState, flap, d)
                  /\ env' = [env EXCEPT !.ticks = @ + 1,
                                        !.events = IF Spawns(d.spawn) THEN @ + 1 ELSE @,
                                        !.gone = @ + Len(AddObstacle(ScrollObstacles(gameState.obstacles), d.top))
                                                   - Len(cand.obstacles),
                                        !.shot = @ + Len(cand.enemies) - Len(pass.enemies)]
                  /\ last' = [op |-> "tick", ran |-> TRUE,
                              clampHigh |-> phys.clampHigh, clampLow |-> phys.clampLow,
                              bullets |-> cand.bullets, enemies |-> cand.enemies,
                              score |-> cand.score, pairs |-> pass.pairs,
                              dropped |->
                                Len(AddObstacle(ScrollObstacles(gameState.obstacles),
                                                d.top))
                                  - Len(cand.obstacles),
                              spawned |-> Spawns(d.spawn),
                              pruned |->
                                SelectSeq(MapSeq(gameState.enemies, AdvanceEnemy),
                                          EnemyOutside),
                              prevBefore |-> gameState.bird,
                              prevAfter |-> PrevStateAfter(gameState, flap).bird,
                              again |->
                                updateGame(PrevStateAfter(gameState, flap),
                                           flap, d).bird,
                              old |-> OldNone,
                              spent |->
                                SelectSeq(MapSeq(gameState.bullets, AdvanceBullet),
                                          BulletOutside)]
          /\ shootDeps' = Flags(gameState)
          /\ loop' = LoopAfterCommit(TRUE)
          /\ UNCHANGED keysRef

\* a click on one of the two buttons bound to resetGame
ResetGame ==
  /\ gameState' = ResetState
  /\ env' = [env EXCEPT !.ticks = 0, !.events = 0, !.gone = 0, !.shot = 0]
  /\ last' = Did("reset")
  /\ shootDeps' = Flags(gameState)
  /\ loop' = LoopAfterCommit(TRUE)
  /\ UNCHANGED keysRef

\* handleKeyDownGlobal: Enter shoots, then handleKeyDown records the code
KeyDown(code) ==
  /\ env.events < MaxEvents
  /\ gameState' = IF code = "Enter" THEN handleShoot(shootDeps, gameState)
                  ELSE gameState
  /\ keysRef' = keysRef \cup {code}
  /\ env' = [env EXCEPT !.events = @ + 1]
  /\ last' = Did("keydown")
  /\ shootDeps' = IF gameState' # gameState THEN Flags(gameState) ELSE shootDeps
  /\ loop' = IF gameState' # gameState THEN LoopAfterCommit(FALSE) ELSE loop

\* handleKeyUpGlobal
KeyUp(code) ==
  /\ env.events < MaxEvents
  /\ code \in keysRef
  /\ keysRef' = keysRef \ {code}
  /\ env' = [env EXCEPT !.events = @ + 1]
  /\ last' = Did("keyup")
  /\ UNCHANGED <<gameState, shootDeps, loop>>

\* handleCanvasClick, the onClick prop of the canvas: the commit of a
\* render stores the props, so a click calls the handleShoot of the
\* committed state
CanvasClick ==
  /\ env.events < MaxEvents
  /\ gameState' = handleShoot(Flags(gameState), gameState)
  /\ env' = [env EXCEPT !.events = @ + 1]
  /\ last' = Did("click")
  /\ shootDeps' = IF gameState' # gameState THEN Flags(gameState) ELSE shootDeps
  /\ loop' = IF gameState' # gameState THEN LoopAfterCommit(FALSE) ELSE loop
  /\ UNCHANGED keysRef

\* the effects of the latest commit: a render with changed flags has made a
\* new handleShoot and the listener effect subscribes it; the timer effect
\* runs if one of its dependencies changed
Rerender ==
  /\ shootDeps # Flags(gameState) \/ loop.pending
  /\ shootDeps' = Flags(gameState)
  /\ loop' = IF loop.pending THEN TimerEffect(loop, gameState.gameRunning) ELSE loop
  /\ last' = Did("render")
  /\ UNCHANGED <<gameState, keysRef, env>>

KeyCodes == {"Space", "Enter"}

Next ==
  \/ UpdateGame
  \/ ResetGame
  \/ \E code \in KeyCodes : KeyDown(code)
  \/ \E code \in KeyCodes : KeyUp(code)
  \/ CanvasClick
  \/ Rerender

Spec == Init /\ [][Next]_vars

\* ------------------------------------------------------------------------
\* SpecAny: the same steps, started in any of a bounded set of states of a
\* run in progress.  The entities are placed so that one tick produces the
\* cases of the collision engine: the bird is at mid height, at the ceiling
\* or at the floor; enemies arrive at the bird or at a projectile in this
\* tick; an obstacle arrives at the bird, leaves the playfield or makes room
\* for a new one.
\* ------------------------------------------------------------------------
Enemy(x, y, velocityX, velocityY, type) ==
  [x |-> x, y |-> y, velocityX |-> velocityX, velocityY |-> velocityY,
   size |-> ENEMY_SIZE, type |-> type]

\* (y, velocity): resting at mid height; rising into the ceiling; falling
\* into the floor; stopped at the ceiling by the upper clamp
AnyBirds == {Bird(3000, 0), Bird(6, -114), Bird(5694, 306), Bird(0, 0)}

\* a projectile fired from mid height in this tick interval; one about to
\* leave the playfield
AnyBullets == {Bullet(1300, 3150), Bullet(7940, 150)}

\* two 'right' enemies that reach, in the next tick, the path of a
\* projectile fired from mid height; the first of them also reaches the bird
AnyEnemies ==
  {Enemy(1310, 3025, -ENEMY_SPEED, 0, "right"),
   Enemy(1330, 3075, -ENEMY_SPEED, 0, "right")}

\* obstacle lists of a run in progress: none near the bird; the last one
\* about to pass the spawn line; the first one about to reach the bird; the
\* first one about to leave on the left
AnyObstacles ==
  {<<Obstacle(2000, 1000), Obstacle(5030, 2990)>>,
   <<Obstacle(1970, 1000), Obstacle(5000, 2990)>>,
   <<Obstacle(1310, 1500), Obstacle(4340, 2000), Obstacle(7370, 2990)>>,
   <<Obstacle(-580, 1500), Obstacle(2450, 2000), Obstacle(5480, 2500)>>}

AnyScores == {23}

\* 'left' enemies at the edges of their way: just spawned; two and one tick
\* before x = 825; leaving through the top margin
EdgeEnemies ==
  {Enemy(-ENEMY_SIZE, 750, ENEMY_SPEED, 0, "left"),
   Enemy(8210, 750, ENEMY_SPEED, 0, "left"),
   Enemy(8230, 750, ENEMY_SPEED, 0, "left"),
   Enemy(4000, -240, ENEMY_SPEED, -10, "left")}

SeqsUpTo(S, n) == UNION {[1..k -> S] : k \in 0..n}

\* a committed Running state shows no collision of the bird: the tick that
\* committed it would have ended the run
AnyRunning ==
  {st \in [bird : AnyBirds,
           bullets : SeqsUpTo(AnyBullets, AnyLen),
           enemies : SeqsUpTo(AnyEnemies, AnyLen),
           obstacles : AnyObstacles,
           score : AnyScores,
           gameRunning : {TRUE}, gameOver : {FALSE}]
          \cup
          [bird : {Bird(3000, 0)},
           bullets : {<<>>},
           enemies : SeqsUpTo(EdgeEnemies, AnyLen),
           obstacles : {<<Obstacle(2000, 1000), Obstacle(5030, 2990)>>},
           score : AnyScores,
           gameRunning : {TRUE}, gameOver : {FALSE}] :
     ~CollisionGameOver(st.bird, st.enemies, st.obstacles)}

InitAny ==
  /\ gameState \in AnyRunning \cup {InitialState, ResetState}
  /\ keysRef \in {{}, {"Space"}}
  /\ shootDeps = Flags(gameState)
  /\ loop = NoLoop
  /\ env = [ticks |-> 0, events |-> 0, limit |-> AnyTicks, driver |-> FALSE,
            gone |-> Removals(gameState.score), shot |-> Hits(gameState.score)]
  /\ last = Did("init")

SpecAny == InitAny /\ [][Next]_vars

\* ------------------------------------------------------------------------
\* SpecLoop: the steps with the tick driver followed.  It starts at the
\* mounted component (Idle, no interval) or in a run in progress whose timer
\* effect has run, the bird resting or about to end the run on an obstacle.
\* ------------------------------------------------------------------------
LoopRunning ==
  {st \in AnyRunning :
     /\ st.bird \in {Bird(3000, 0), Bird(0, 0)}
     /\ st.bullets = <<>> /\ st.enemies = <<>>
     /\ st.obstacles[1].x \in {2000, 1310}}

InitLoop ==
  /\ gameState \in LoopRunning \cup {InitialState}
  /\ keysRef = {}
  /\ shootDeps = Flags(gameState)
  /\ loop = IF gameState.gameRunning
            THEN [active |-> 1, refLive |-> TRUE, pending |-> FALSE]
            ELSE NoLoop
  /\ env = [ticks |-> 0, events |-> 0, limit |-> LoopTicks, driver |-> TRUE,
            gone |-> Removals(gameState.score), shot |-> Hits(gameState.score)]
  /\ last = Did("init")

SpecLoop == InitLoop /\ [][Next]_vars

\* ------------------------------------------------------------------------
\* SpecOld: ticks and resets of the earlier variant, src/unnamed/part_000,
\* started in a run in progress.  Its motion and spawning code and its reset
\* literal are those of the component; its checkCollisions differs.
\* ------------------------------------------------------------------------
\* a projectile fired from mid height and one far from every enemy
OldBullets == {Bullet(1300, 3150), Bullet(5000, 1000)}

\* 'top' enemies: two that reach the first projectile in the next tick, one
\* far from both projectiles
OldEnemies ==
  {Enemy(1400, 3100, 0, ENEMY_SPEED, "top"),
   Enemy(1500, 3180, 0, ENEMY_SPEED, "top"),
   Enemy(6000, 500, 0, ENEMY_SPEED, "top")}

OldRunning ==
  [bird : {Bird(3000, 0), Bird(0, 0)},
   bullets : SeqsUpTo(OldBullets, AnyLen),
   enemies : SeqsUpTo(OldEnemies, OldLen),
   obstacles : {<<Obstacle(2000, 1000), Obstacle(5030, 2990)>>,
                <<Obstacle(1310, 1500), Obstacle(4340, 2000), Obstacle(7370, 2990)>>},
   score : AnyScores,
   gameRunning : {TRUE}, gameOver : {FALSE}]

InitOld ==
  /\ gameState \in OldRunning
  /\ keysRef \in {{}, {"Space"}}
  /\ shootDeps = Flags(gameState)
  /\ loop = NoLoop
  /\ env = [ticks |-> 0, events |-> 0, limit |-> AnyTicks, driver |-> FALSE,
            gone |-> Removals(gameState.score), shot |-> Hits(gameState.score)]
  /\ last = Did("init")

\* one firing of the interval callback of the earlier variant: updateGame
\* returns at once unless gameRunning, and its updater has no test of its
\* own
OldUpdateGame ==
  /\ gameState.gameRunning
  /\ Len(gameState.obstacles) > 0
  /\ env.ticks < env.limit
  /\ \E d \in TickDraws(gameState) :
       LET flap == "Space" \in keysRef
           phys == BirdPhysics(gameState.bird, flap)
           cand == Motion(gameState, flap, d)
           pass == OldBulletEnemyPass(cand.bullets, cand.enemies, cand.score)
       IN /\ gameState' = OldCheckCollisions(cand)
          /\ env' = [env EXCEPT !.ticks = @ + 1,
                                !.events = IF Spawns(d.spawn) THEN @ + 1 ELSE @,
                                !.gone = @ + Len(AddObstacle(ScrollObstacles(gameState.obstacles), d.top))
                                           - Len(cand.obstacles),
                                !.shot = @ + Len(cand.enemies) - Len(pass.enemies)]
          /\ last' = [Did("oldtick") EXCEPT
                        !.ran = TRUE,
                        !.clampHigh = phys.clampHigh, !.clampLow = phys.clampLow,
                        !.bullets = cand.bullets, !.enemies = cand.enemies,
                        !.score = cand.score, !.old = pass]
  /\ shootDeps' = Flags(gameState)
  /\ UNCHANGED <<keysRef, loop>>

NextOld ==
  \/ OldUpdateGame
  \/ ResetGame

SpecOld == InitOld /\ [][NextOld]_vars

\* ------------------------------------------------------------------------
\* SpecFall: whole runs from the initial state, long enough for the first
\* obstacle of a run to reach the bird, with the flap key never pressed and
\* ticks that keep firing while the run lasts (the interval set by the
\* timer effect).  The two buttons
\* bound to resetGame are rendered only while gameRunning is false.
\* ------------------------------------------------------------------------
InitFall ==
  /\ gameState = InitialState
  /\ keysRef = {}
  /\ shootDeps = Flags(InitialState)
  /\ loop = NoLoop
  /\ env = [ticks |-> 0, events |-> 0, limit |-> FallTicks, driver |-> FALSE,
            gone |-> 0, shot |-> 0]
  /\ last = Did("init")

ButtonReset ==
  /\ ~gameState.gameRunning
  /\ ResetGame

\* the flap key is left alone
FallCodes == KeyCodes \ {"Space"}

NextFall ==
  \/ UpdateGame
  \/ ButtonReset
  \/ \E code \in FallCodes : KeyDown(code)
  \/ \E code \in FallCodes : KeyUp(code)
  \/ CanvasClick
  \/ Rerender

\* the interval calls updateGame every 16 ms for as long as a run lasts:
\* weak fairness of the tick, its enabling condition written as the guard
\* of a tick processed while Running
TickDue ==
  /\ gameState.gameRunning
  /\ Len(gameState.obstacles) > 0
  /\ env.ticks < env.limit

TicksKeepFiring == []<>(~TickDue) \/ []<><<UpdateGame>>_vars

SpecFall == InitFall /\ [][NextFall]_vars /\ TicksKeepFiring

\* ------------------------------------------------------------------------
\* Vocabulary of the properties, written from their statements
\* ------------------------------------------------------------------------
Phase(state) ==
  IF state.gameOver THEN "Over"
  ELSE IF state.gameRunning THEN "Running" ELSE "Idle"

\* the last step was a tick processed while Running
TickRan == last.op = "tick" /\ last.ran

\* center distance of a and b < a.size/2 + b.size/2, on doubled coordinates
CentersWithinRadii(a, b) ==
  LET dx2 == (2 * a.x + a.size) - (2 * b.x + b.size)
      dy2 == (2 * a.y + a.size) - (2 * b.y + b.size)
  IN dx2 * dx2 + dy2 * dy2 < (a.size + b.size) * (a.size + b.size)

\* horizontal spans overlap and the bird is not fully inside the gap
OutsideGap(bird, obstacle) ==
  /\ bird.x < obstacle.x + obstacle.width
  /\ obstacle.x < bird.x + bird.size
  /\ (bird.y < obstacle.topHeight
      \/ bird.y + bird.size > obstacle.topHeight + obstacle.gap)

EnemyCollision ==
  \E i \in 1..Len(gameState.enemies) :
     CentersWithinRadii(gameState.bird, gameState.enemies[i])

ObstacleCollision ==
  \E i \in 1..Len(gameState.obstacles) :
     OutsideGap(gameState.bird, gameState.obstacles[i])

\* ------------------------------------------------------------------------
\* C1  A tick processed while Running in which the lower-bound clamp fires
\*     (post-gravity y > 600 - 30) commits phase Over, collision or not.
\* ------------------------------------------------------------------------
C1_LowerClampEndsRun ==
  (TickRan /\ last.clampLow) =>
     (gameState.gameOver /\ ~gameState.gameRunning)

\* ------------------------------------------------------------------------
\* C2  In every committed state, after any sequence of reset, tick, flap
\*     key-down / key-up and fire events, the bird's y lies in
\*     [0, playfield_height - size] = [0, 570].
\* ------------------------------------------------------------------------
C2_BirdInPlayfield ==
  /\ 0 <= gameState.bird.y
  /\ gameState.bird.y <= CANVAS_HEIGHT - gameState.bird.size

\* a tick in which the lower clamp fired has put the bird on the bound
C2_Witness ==
  /\ TickRan /\ last.clampLow
  /\ gameState.bird.y = CANVAS_HEIGHT - gameState.bird.size

\* ------------------------------------------------------------------------
\* C3  A tick processed while Running whose post-motion state has the bird
\*     within center distance < bird.size/2 + enemy.size/2 of an enemy that
\*     survived the projectile pass, or horizontally overlapping an obstacle
\*     while bird.y < topHeight or bird.y + size > topHeight + gap, commits
\*     phase Over in that same tick.
\* ------------------------------------------------------------------------
C3_CollisionEndsRun ==
  (TickRan /\ (EnemyCollision \/ ObstacleCollision)) =>
     (gameState.gameOver /\ ~gameState.gameRunning)

\* a tick has left an enemy within reach of the bird and ended the run
C3_Witness ==
  /\ TickRan /\ EnemyCollision /\ ~ObstacleCollision
  /\ gameState.gameOver /\ ~gameState.gameRunning

\* ------------------------------------------------------------------------
\* C4  A tick processed while Running commits phase Over only if in that
\*     tick the lower-bound clamp fired or a bird-vs-enemy or
\*     bird-vs-obstacle collision fired; if none of them fired the committed
\*     phase is still Running.
\* ------------------------------------------------------------------------
C4_OverOnlyWithCause ==
  TickRan =>
    LET cause == last.clampLow \/ EnemyCollision \/ ObstacleCollision
    IN /\ Phase(gameState) = "Over" => cause
       /\ ~cause => (gameState.gameRunning /\ ~gameState.gameOver)

\* a tick has ended the run on an obstacle alone, the bird being at the
\* ceiling
C4_Witness ==
  /\ TickRan /\ ObstacleCollision /\ ~EnemyCollision /\ ~last.clampLow
  /\ Phase(gameState) = "Over"

\* ------------------------------------------------------------------------
\* C5  The phase only changes along Idle -> Running (reset), Running -> Over
\*     (tick) and Over -> Running (reset): once Over it stays Over under
\*     ticks, flap and fire events until a reset, and Idle is never
\*     re-entered.
\* ------------------------------------------------------------------------
C5_PhaseTransitions ==
  [][Phase(gameState') # Phase(gameState) =>
       \/ /\ Phase(gameState) = "Idle" /\ Phase(gameState') = "Running"
          /\ last'.op = "reset"
       \/ /\ Phase(gameState) = "Running" /\ Phase(gameState') = "Over"
          /\ last'.op = "tick"
       \/ /\ Phase(gameState) = "Over" /\ Phase(gameState') = "Running"
          /\ last'.op = "reset"]_vars

\* a run started from Idle has ended in Over and a reset has started the
\* next run
C5_Witness ==
  /\ last.op = "reset"
  /\ shootDeps.gameOver
  /\ Phase(gameState) = "Running"

\* ------------------------------------------------------------------------
\* C6  A tick delivered while the phase is Idle or Over leaves the whole
\*     game state unchanged, also when the flap key is held.
\* ------------------------------------------------------------------------
C6_TickOutsideRunning ==
  [][(last'.op = "tick" /\ Phase(gameState) # "Running") =>
       gameState' = gameState]_vars

\* a tick has been delivered in phase Over with the flap key held
C6_Witness ==
  /\ Phase(gameState) = "Over"
  /\ last.op = "tick" /\ ~last.ran
  /\ "Space" \in keysRef

\* ------------------------------------------------------------------------
\* C7  A reset issued in any state yields the same state: bird at x = 100,
\*     y = 300, velocity 0, size 30; no projectiles, no enemies; the two
\*     obstacles (x = 400, topHeight = 150) and (x = 700, topHeight = 250)
\*     with gap 200 and width 60; score 0; phase Running.
\* ------------------------------------------------------------------------
C7_ResetIsConstant ==
  last.op = "reset" =>
    gameState =
      [bird |-> [x |-> 1000, y |-> 3000, velocity |-> 0, size |-> 300],
       bullets |-> <<>>,
       enemies |-> <<>>,
       obstacles |-> <<[x |-> 4000, topHeight |-> 1500, gap |-> 2000, width |-> 600],
                       [x |-> 7000, topHeight |-> 2500, gap |-> 2000, width |-> 600]>>,
       score |-> 0, gameRunning |-> TRUE, gameOver |-> FALSE]

\* a reset has been issued after the handlers had seen phase Over, with the
\* flap key held
C7_Witness ==
  /\ last.op = "reset"
  /\ shootDeps.gameOver
  /\ "Space" \in keysRef

\* ------------------------------------------------------------------------
\* C8  The score is a non-negative integer that no tick, fire or key event
\*     lowers; only a reset lowers it, to 0.
\* ------------------------------------------------------------------------
C8_ScoreMonotone ==
  [][/\ gameState'.score \in Nat
     /\ gameState'.score < gameState.score =>
          (last'.op = "reset" /\ gameState'.score = 0)]_vars

\* a tick has raised a positive score by a projectile hit
C8_Witness ==
  /\ TickRan /\ last.pairs # <<>>
  /\ last.score > 0
  /\ gameState.score > last.score

\* ------------------------------------------------------------------------
\* C9  The projectile-vs-enemy pass of one tick removes each projectile at
\*     most once and each enemy at most once, the same number k of both,
\*     raises the score by exactly 10 k, and every removed projectile was
\*     within center distance < bullet.size/2 + enemy.size/2 of the enemy
\*     removed together with it.
\* ------------------------------------------------------------------------
C9_ProjectilePass ==
  TickRan =>
    LET k == Len(last.pairs)
        RB == {last.pairs[i][1] : i \in 1..k}
        RE == {last.pairs[i][2] : i \in 1..k}
    IN /\ Cardinality(RB) = k
       /\ Cardinality(RE) = k
       /\ RB \subseteq 1..Len(last.bullets)
       /\ RE \subseteq 1..Len(last.enemies)
       /\ gameState.bullets = Without(last.bullets, RB, 1)
       /\ gameState.enemies = Without(last.enemies, RE, 1)
       /\ gameState.score = last.score + 10 * k
       /\ \A i \in 1..k :
            CentersWithinRadii(last.bullets[last.pairs[i][1]],
                               last.enemies[last.pairs[i][2]])

\* one tick has removed two projectiles and two enemies
C9_Witness ==
  /\ TickRan
  /\ Len(last.pairs) = 2

\* ------------------------------------------------------------------------
\* C10 In the state committed by a tick no projectile and enemy that are
\*     both still present have centers within the sum of their radii.
\* ------------------------------------------------------------------------
C10_NoOverlapLeft ==
  TickRan =>
    \A i \in 1..Len(gameState.bullets), j \in 1..Len(gameState.enemies) :
       ~CentersWithinRadii(gameState.bullets[i], gameState.enemies[j])

\* a tick has removed a pair and has left a projectile and an enemy
C10_Witness ==
  /\ TickRan /\ last.pairs # <<>>
  /\ gameState.bullets # <<>>
  /\ gameState.enemies # <<>>

\* ------------------------------------------------------------------------
\* C11 An obstacle is removed by the first tick that scrolls it to
\*     x + width < 0, and that tick adds exactly 1 to the score for it: a
\*     tick keeps, in order, the scrolled obstacles that are not past the
\*     left edge, commits no obstacle past the edge, and raises the score by
\*     the number of obstacles it removed plus 10 for each projectile hit;
\*     input events change neither the obstacles nor the score.
\* ------------------------------------------------------------------------
C11_ObstacleScoredOnce ==
  [][/\ (last'.op = "tick" /\ last'.ran) =>
          LET old == gameState.obstacles
              gone == {i \in 1..Len(old) : old[i].x - 30 + old[i].width < 0}
              kept == Without([i \in 1..Len(old) |-> [old[i] EXCEPT !.x = @ - 30]],
                              gone, 1)
              new == gameState'.obstacles
          IN /\ Len(new) >= Len(kept)
             /\ SubSeq(new, 1, Len(kept)) = kept
             /\ \A i \in 1..Len(new) : new[i].x + new[i].width >= 0
             /\ gameState'.score =
                  gameState.score + Cardinality(gone) + 10 * Len(last'.pairs)
     /\ last'.op \in {"keydown", "keyup", "click", "render"} =>
          /\ gameState'.obstacles = gameState.obstacles
          /\ gameState'.score = gameState.score]_vars

\* a tick has removed an obstacle and a projectile has hit an enemy in it
C11_Witness ==
  /\ TickRan
  /\ last.dropped = 1
  /\ last.pairs # <<>>

\* ------------------------------------------------------------------------
\* C12 A tick processed while Running with no flap held and with
\*     0 <= y + v + 0.6 <= 570 (no clamp) commits velocity v + 0.6 and
\*     y + (v + 0.6); from y = 0, v = 0 it commits y = 0.6, v = 0.6.
\* ------------------------------------------------------------------------
C12_GravityStep ==
  [][(/\ last'.op = "tick" /\ last'.ran
      /\ "Space" \notin keysRef
      /\ 0 <= gameState.bird.y + gameState.bird.velocity + 6
      /\ gameState.bird.y + gameState.bird.velocity + 6 <= 6000 - 300) =>
       /\ gameState'.bird.velocity = gameState.bird.velocity + 6
       /\ gameState'.bird.y = gameState.bird.y + gameState.bird.velocity + 6
       /\ (gameState.bird.y = 0 /\ gameState.bird.velocity = 0) =>
            (gameState'.bird.y = 6 /\ gameState'.bird.velocity = 6)]_vars

\* a tick without flap has moved the bird from y = 0, v = 0
C12_Witness ==
  /\ TickRan /\ ~last.clampHigh /\ ~last.clampLow
  /\ "Space" \notin keysRef
  /\ gameState.bird.y = 6 /\ gameState.bird.velocity = 6

\* ------------------------------------------------------------------------
\* C13 An enemy spawned on the left edge is created with x = -25,
\*     velocityX = +2, size 25 and tag 'left'.  In a tick that moves a
\*     'left' enemy to a position overlapping the playfield the enemy stays
\*     in the list unless a projectile is within reach of it; the tick that
\*     moves it to x >= 825 removes it (a 'left' enemy reaches exactly 825),
\*     so no committed 'left' enemy has x >= 825.
\* ------------------------------------------------------------------------
MovedEnemy(enemy) ==
  [enemy EXCEPT !.x = enemy.x + enemy.velocityX, !.y = enemy.y + enemy.velocityY]

OverlapsPlayfield(enemy) ==
  /\ enemy.x + enemy.size > 0 /\ enemy.x < 8000
  /\ enemy.y + enemy.size > 0 /\ enemy.y < 6000

Stays(enemy, state) == \E j \in 1..Len(state.enemies) : state.enemies[j] = enemy

InReachOfProjectile(enemy, bullets) ==
  \E j \in 1..Len(bullets) : CentersWithinRadii(bullets[j], enemy)

LeftEnemyCreated ==
  (last'.spawned /\ last'.enemies[Len(last'.enemies)].type = "left") =>
     LET enemy == last'.enemies[Len(last'.enemies)]
     IN enemy.x = -250 /\ enemy.velocityX = 20 /\ enemy.size = 250

LeftEnemyKept ==
  \A i \in 1..Len(gameState.enemies) :
     LET moved == MovedEnemy(gameState.enemies[i])
     IN (moved.type = "left" /\ OverlapsPlayfield(moved)) =>
          (Stays(moved, gameState') \/ InReachOfProjectile(moved, last'.bullets))

C13_LeftEnemyWay ==
  [][(last'.op = "tick" /\ last'.ran) =>
       /\ LeftEnemyCreated
       /\ LeftEnemyKept
       /\ \A i \in 1..Len(gameState.enemies) :
            LET moved == MovedEnemy(gameState.enemies[i])
            IN (moved.type = "left" /\ moved.x >= 8250) => ~Stays(moved, gameState')
       /\ \A j \in 1..Len(gameState'.enemies) :
            gameState'.enemies[j].type = "left" => gameState'.enemies[j].x < 8250]_vars

\* the statement as given: a 'left' enemy is removed once its x exceeds 825,
\* not before, unless a projectile is within reach of it or it has left the
\* margin above or below
C13_RemovedBeyond825 ==
  [][(last'.op = "tick" /\ last'.ran) =>
       /\ LeftEnemyCreated
       /\ LeftEnemyKept
       /\ \A i \in 1..Len(gameState.enemies) :
            LET moved == MovedEnemy(gameState.enemies[i])
            IN moved.type = "left" =>
                 (~Stays(moved, gameState') =>
                    \/ moved.x > 8250
                    \/ moved.y <= -250 \/ moved.y >= 6250
                    \/ InReachOfProjectile(moved, last'.bullets))]_vars

\* a tick has removed a 'left' enemy that it moved to x = 825 and has kept
\* one that it moved to x = 823
C13_Witness ==
  /\ TickRan
  /\ \E k \in 1..Len(last.pruned) :
       last.pruned[k].type = "left" /\ last.pruned[k].x = 8250
  /\ \E j \in 1..Len(gameState.enemies) :
       gameState.enemies[j].type = "left" /\ gameState.enemies[j].x = 8230

\* ------------------------------------------------------------------------
\* C14 A projectile is added only while the run is active: a fire event
\*     handled in phase Idle or Over, by whichever handler is subscribed,
\*     leaves the projectile list as it is.
\* ------------------------------------------------------------------------
C14_FireOnlyWhileRunning ==
  [][(last'.op \in {"keydown", "click"} /\ Phase(gameState) # "Running") =>
       gameState'.bullets = gameState.bullets]_vars

\* ------------------------------------------------------------------------
\* C15 Flap key events are only recorded: a key-up, and a key-down other
\*     than Enter, leave the committed state as it is, and a held flap key
\*     acts in the next tick.  A fire event (Enter key-down or click) either
\*     leaves the committed state as it is or, at once, appends one
\*     projectile at (bird.x + size, bird.y + size/2) and changes nothing
\*     else; the projectile list changes in ticks, resets and fire events
\*     only.
\* ------------------------------------------------------------------------
Fired(state) ==
  [state EXCEPT !.bullets =
     Append(@, [x |-> state.bird.x + 300, y |-> state.bird.y + 150,
                velocity |-> 80, size |-> 80])]

C16_OneTickDriver ==
  /\ loop.active <= 1
  /\ ~loop.pending =>
       loop.active = (IF gameState.gameRunning THEN 1 ELSE 0)

\* the run has ended, the timer effect has run and no interval is left; the
\* ref still holds the cleared one
C16_Witness ==
  /\ env.driver
  /\ Phase(gameState) = "Over"
  /\ last.op = "render"
  /\ loop = NoLoop

\* ------------------------------------------------------------------------
\* C17 A tick leaves the previously committed snapshot as it was: the y and
\*     velocity of its bird are not changed by the updater, and applying the
\*     updater once more to that snapshot, with the same input and draws,
\*     returns the same bird.
\* ------------------------------------------------------------------------
C17_TickLeavesPrevState ==
  TickRan =>
    /\ last.prevAfter = last.prevBefore
    /\ last.again = gameState.bird

\* ------------------------------------------------------------------------
\* C18 The projectile pass of the earlier variant, which goes on after a hit
\*     and splices the lists it iterates: every hit is of a visited
\*     projectile within corner distance < bullet.size + enemy.size of the
\*     enemy removed, removes one enemy and adds 10; and whenever the first
\*     projectile is within that distance of the first and of the third
\*     enemy, it is credited against both (score + 20 or more), it is not
\*     tested against the second enemy, and the second projectile, if there
\*     is one, is removed in its place.
\* ------------------------------------------------------------------------
OldTickRan == last.op = "oldtick" /\ last.ran

CornersWithinSizes(a, b) ==
  (a.x - b.x) * (a.x - b.x) + (a.y - b.y) * (a.y - b.y)
    < (a.size + b.size) * (a.size + b.size)

Credits(bullet) ==
  {k \in 1..Len(last.old.log) : last.old.log[k].visited = bullet}

C18_OldPassCreditsTwice ==
  OldTickRan =>
    LET B == last.bullets
        E == last.enemies
        log == last.old.log
    IN /\ gameState.score = last.score + 10 * Len(log)
       /\ Len(gameState.enemies) = Len(E) - Len(log)
       /\ \A k \in 1..Len(log) :
            CornersWithinSizes(B[log[k].visited], E[log[k].enemy])
       /\ (/\ Len(B) >= 1 /\ Len(E) >= 3
           /\ CornersWithinSizes(B[1], E[1])
           /\ CornersWithinSizes(B[1], E[3])) =>
            /\ Cardinality(Credits(1)) >= 2
            /\ gameState.score >= last.score + 20
            /\ <<1, 2>> \notin last.old.tested
            /\ Len(B) >= 2 => \E k \in Credits(1) : log[k].removed = 2

\* one tick has credited one projectile against two enemies, has removed
\* with it a projectile that was in reach of no enemy, and has not tested
\* the credited projectile against an enemy that was in the list
C18_Witness ==
  /\ OldTickRan
  /\ \E b \in 1..Len(last.bullets) : Cardinality(Credits(b)) >= 2
  /\ \E k \in 1..Len(last.old.log) :
       /\ last.old.log[k].removed \notin {0, last.old.log[k].visited}
       /\ \A j \in 1..Len(last.enemies) :
            ~CornersWithinSizes(last.bullets[last.old.log[k].removed],
                                last.enemies[j])
  /\ last.old.present \ last.old.tested # {}

\* ------------------------------------------------------------------------
\* C19 In the earlier variant a tick whose post-motion state has the bird
\*     within collision distance (corner distance < bird.size + enemy.size)
\*     of a remaining enemy, or horizontally overlapping an obstacle with
\*     its vertical extent not fully inside the gap, commits
\*     gameOver = true and gameRunning = false.
\* ------------------------------------------------------------------------
C19_OldCollisionEndsRun ==
  (/\ OldTickRan
   /\ \/ \E i \in 1..Len(gameState.enemies) :
           CornersWithinSizes(gameState.bird, gameState.enemies[i])
      \/ ObstacleCollision) =>
     (gameState.gameOver /\ ~gameState.gameRunning)

\* ------------------------------------------------------------------------
\* C20 The bird is tested against the enemies that remain after the
\*     projectile pass: a tick in which an enemy overlapping the bird in the
\*     post-motion state is removed by a projectile ends the run only if a
\*     remaining enemy or an obstacle collides with the bird.
\* ------------------------------------------------------------------------
RemovedEnemyOnBird ==
  \E k \in 1..Len(last.pairs) :
     CentersWithinRadii(gameState.bird, last.enemies[last.pairs[k][2]])

C20_RemovedEnemyHarmless ==
  (TickRan /\ RemovedEnemyOnBird) =>
     (gameState.gameOver <=> (EnemyCollision \/ ObstacleCollision))

\* a tick has removed an enemy that overlapped the bird and the run goes on
C20_Witness ==
  /\ TickRan /\ RemovedEnemyOnBird
  /\ Phase(gameState) = "Running"

\* ------------------------------------------------------------------------
\* C21 A tick processed while Running appends a new obstacle exactly when,
\*     after scrolling, there are fewer than 4 obstacles and the last one has
\*     x < 800 - 300 = 500; the new obstacle has x = 800, topHeight in
\*     [100, 300), gap 200 and width 60; at most one is appended per tick.
\* ------------------------------------------------------------------------
C21_ObstacleSpawn ==
  [][(last'.op = "tick" /\ last'.ran) =>
       LET old == gameState.obstacles
           new == gameState'.obstacles
           gone == {i \in 1..Len(old) : old[i].x - 30 + old[i].width < 0}
           due == Len(old) < 4 /\ old[Len(old)].x - 30 < 8000 - 3000
           added == Len(new) - (Len(old) - Cardinality(gone))
       IN /\ added = (IF due THEN 1 ELSE 0)
          /\ due =>
               /\ new[Len(new)].x = 8000
               /\ new[Len(new)].topHeight >= 1000
               /\ new[Len(new)].topHeight < 3000
               /\ new[Len(new)].gap = 2000
               /\ new[Len(new)].width = 600]_vars

\* a tick has appended an obstacle with the highest top height drawn
C21_Witness ==
  /\ TickRan
  /\ Len(gameState.obstacles) = 3
  /\ gameState.obstacles[3].x = 8000
  /\ gameState.obstacles[3].topHeight = 2990

\* ------------------------------------------------------------------------
\* C22 A tick processed while Running with Space held commits the velocity
\*     -12 + 0.6 = -11.4 whatever the velocity was, or 0 when the upper
\*     clamp fires (y - 11.4 < 0); no committed velocity is below -11.4.
\* ------------------------------------------------------------------------
C22_FlapOverrides ==
  [][/\ (last'.op = "tick" /\ last'.ran /\ "Space" \in keysRef) =>
          gameState'.bird.velocity =
            (IF gameState.bird.y + (-120 + 6) < 0 THEN 0 ELSE -120 + 6)
     /\ gameState'.bird.velocity >= -120 + 6]_vars

\* flap has been held over several ticks of a run that started falling
C22_Witness ==
  /\ TickRan /\ "Space" \in keysRef
  /\ env.ticks >= 3
  /\ gameState.bird.velocity = -114
  /\ gameState.bird.y > 3000

\* ------------------------------------------------------------------------
\* C23 A tick in which the upper clamp fired (post-gravity y < 0) commits
\*     y = 0 and velocity = 0.
\* ------------------------------------------------------------------------
PostGravityY ==
  last.prevBefore.y
    + (IF "Space" \in keysRef THEN -120 ELSE last.prevBefore.velocity) + 6

C23_UpperClamp ==
  (TickRan /\ PostGravityY < 0) =>
     (gameState.bird.y = 0 /\ gameState.bird.velocity = 0)

\* the upper clamp has stopped a bird that was rising with no key held
C23_Witness ==
  /\ TickRan /\ PostGravityY < 0
  /\ "Space" \notin keysRef
  /\ last.prevBefore.velocity < 0
  /\ gameState.bird.y = 0

\* ------------------------------------------------------------------------
\* C24 A projectile is created at (bird.x + size, bird.y + size/2) with
\*     speed 8; every tick processed while Running advances it by exactly 8
\*     in x and keeps it only if x < 800 and no enemy was hit by it; so a
\*     committed projectile has x = 130 + 8 k with k <= 83 ticks of age, and
\*     it is gone after at most 84 ticks.
\* ------------------------------------------------------------------------
Advanced(bullet) == [bullet EXCEPT !.x = @ + 80]

IsSubSeq(s, t) ==
  \E f \in [1..Len(s) -> 1..Len(t)] :
     /\ \A i \in 1..Len(s) : s[i] = t[f[i]]
     /\ \A i, j \in 1..Len(s) : i < j => f[i] < f[j]

C24_ProjectileWay ==
  [][/\ (last'.op = "tick" /\ last'.ran) =>
          LET old == gameState.bullets
              moved == [i \in 1..Len(old) |-> Advanced(old[i])]
              kept == Without(moved, {i \in 1..Len(old) : moved[i].x >= 8000}, 1)
          IN /\ IsSubSeq(gameState'.bullets, kept)
             /\ last'.pairs = <<>> => gameState'.bullets = kept
     /\ (last'.op \in {"keydown", "click"} /\ gameState' # gameState) =>
          gameState'.bullets =
            Append(gameState.bullets,
                   [x |-> gameState.bird.x + 300, y |-> gameState.bird.y + 150,
                    velocity |-> 80, size |-> 80])
     /\ \A i \in 1..Len(gameState'.bullets) :
          /\ gameState'.bullets[i].velocity = 80
          /\ gameState'.bullets[i].x \in {1300 + 80 * k : k \in 0..83}]_vars

\* the 84th tick of a projectile has removed it at x = 802
C24_Witness ==
  /\ TickRan
  /\ \E i \in 1..Len(last.spent) : last.spent[i].x = 1300 + 80 * 84
  /\ \E i \in 1..Len(gameState.bullets) : gameState.bullets[i].x = 1380

\* ------------------------------------------------------------------------
\* C25 In every state with phase Running the obstacle list is non-empty, and
\*     no tick has ever read obstacles[length - 1] on an empty list (the
\*     read that throws), for any ticks, inputs and obstacle heights.
\* ------------------------------------------------------------------------
C25_ObstaclesWhileRunning ==
  /\ Phase(gameState) = "Running" => Len(gameState.obstacles) >= 1
  /\ last.op # "throw"

\* a tick has dropped the first obstacle and the run goes on with the rest
C25_Witness ==
  /\ TickRan
  /\ Phase(gameState) = "Running"
  /\ last.dropped = 1
  /\ Len(gameState.obstacles) = 2

\* ------------------------------------------------------------------------
\* C26 No committed state has gameRunning and gameOver both true: the flags
\*     of every committed state, and of every committed state a handler has
\*     captured, are those of Idle (false, false), Running (true, false) or
\*     Over (false, true).
\* ------------------------------------------------------------------------
C26_OnePhase ==
  LET phases == {[gameRunning |-> FALSE, gameOver |-> FALSE],
                 [gameRunning |-> TRUE, gameOver |-> FALSE],
                 [gameRunning |-> FALSE, gameOver |-> TRUE]}
  IN /\ Flags(gameState) \in phases
     /\ shootDeps \in phases

\* a tick in which the lower clamp has written both flags and the collision
\* tests have then found the bird on an obstacle
C26_Witness ==
  /\ TickRan
  /\ last.clampLow
  /\ ObstacleCollision
  /\ gameState.gameOver
  /\ ~gameState.gameRunning

\* ------------------------------------------------------------------------
\* C27 In every committed state the obstacle list has at most 4 entries, is
\*     ordered by strictly increasing x with consecutive obstacles at least
\*     300 apart, and the bird (width 30) is horizontally within at most one
\*     obstacle (width 60).
\* ------------------------------------------------------------------------
OverBird(obstacle) ==
  /\ gameState.bird.x < obstacle.x + obstacle.width
  /\ gameState.bird.x + gameState.bird.size > obstacle.x

C27_ObstacleOrder ==
  LET obstacles == gameState.obstacles
  IN /\ Len(obstacles) <= 4
     /\ \A i \in 1..(Len(obstacles) - 1) :
          obstacles[i + 1].x - obstacles[i].x >= 3000
     /\ \A i, j \in 1..Len(obstacles) :
          i < j => obstacles[i].x < obstacles[j].x
     /\ Cardinality({i \in 1..Len(obstacles) : OverBird(obstacles[i])}) <= 1

\* a tick has left three obstacles, the bird inside the gap of the first
C27_Witness ==
  /\ TickRan
  /\ Phase(gameState) = "Running"
  /\ Len(gameState.obstacles) = 3
  /\ OverBird(gameState.obstacles[1])
  /\ gameState.obstacles[2].x - gameState.obstacles[1].x = 3030

\* ------------------------------------------------------------------------
\* C28 At every committed state the score is the number of obstacles removed
\*     past the left edge since the last reset plus 10 times the number of
\*     enemies removed by a projectile since that reset; nothing else moves
\*     the score.
\* ------------------------------------------------------------------------
C28_ScoreAccount ==
  gameState.score = env.gone + 10 * env.shot

\* a tick has removed an obstacle and a projectile has removed an enemy in
\* a run that had three removals and two hits before
C28_Witness ==
  /\ TickRan
  /\ env.gone = 4
  /\ env.shot = 3
  /\ gameState.score = 34

\* ------------------------------------------------------------------------
\* C29 If the flap key is never held and ticks keep firing, a run does not
\*     stay Running: it never processes more than 91 ticks, and every state
\*     with phase Running is followed by one with phase Over, whatever
\*     enemies and obstacle heights are drawn.
\* ------------------------------------------------------------------------
NoFlap == "Space" \notin keysRef

C29_FallEndsRun ==
  /\ [](NoFlap /\ (Phase(gameState) = "Running" => env.ticks <= 90))
  /\ (Phase(gameState) = "Running") ~> (Phase(gameState) = "Over")

\* the 91st tick of a run finds the bird, at rest on the lower bound, on the
\* first obstacle
C29_Witness ==
  /\ TickRan
  /\ env.ticks = 91
  /\ last.clampLow
  /\ ObstacleCollision
  /\ NoFlap
  /\ Phase(gameState) = "Over"

====
